---- MODULE Spec2Model ----
(***************************************************************************)
(* Model of scripts/check_deps.py: check_dependencies() walks a fixed list *)
(* of module names, tries to import each one, and prints one line per      *)
(* module; the __main__ block calls it once.                               *)
(*                                                                         *)
(* The interpreter's module loader is the environment: for every name it   *)
(* either loads the module or raises an exception.  The exception may be   *)
(* ModuleNotFoundError (no such module), a plain ImportError (the module   *)
(* exists but an import inside it fails), or an exception that is not an   *)
(* ImportError at all (the module exists but its top-level code is broken, *)
(* represented by SyntaxError).                                            *)
(***************************************************************************)
EXTENDS Integers, Sequences, FiniteSets, TLC

VARIABLES
    modules,    \* the local list `modules` of check_dependencies()
    loader,     \* environment: what __import__(name) does for each name
    idx,        \* position of the for loop: number of entries taken so far
    pc,         \* control point of the run
    exc,        \* the exception in flight, "none" when there is none
    imports,    \* the names __import__ has been called with, in call order
    stdout,     \* the lines printed so far
    exit_code   \* process exit status; -1 while the process is running

vars == <<modules, loader, idx, pc, exc, imports, stdout, exit_code>>

----------------------------------------------------------------------------
(* The list literal of line 5. *)
ModuleList == <<"speech_recognition", "pyttsx3", "requests", "json">>

ModuleNames == {ModuleList[i] : i \in 1..Len(ModuleList)}

(* The glyphs of the two f-strings (U+2713 and U+2717). *)
CheckMark == "U+2713 CHECK MARK"
CrossMark == "U+2717 BALLOT X"

(* f'<glyph> {module}': one printed line. *)
Line(glyph, name) == [glyph |-> glyph, name |-> name]

(* What a load attempt can do. *)
LoadOutcomes == {"ok", "ModuleNotFoundError", "ImportError", "SyntaxError"}

(* Python's built-in exception hierarchy, as far as the outcomes need it. *)
BaseOf(cls) ==
    CASE cls = "ModuleNotFoundError" -> "ImportError"
      [] cls = "ImportError"         -> "Exception"
      [] cls = "SyntaxError"         -> "Exception"
      [] cls = "Exception"           -> "BaseException"
      [] OTHER                       -> "object"

RECURSIVE IsSubclass(_, _)
IsSubclass(cls, of) ==
    IF cls = of THEN TRUE
    ELSE IF cls = "object" THEN FALSE
    ELSE IsSubclass(BaseOf(cls), of)

(* A bare `except:`, which matches every exception. *)
HandlerMatches_CatchAll(e) == TRUE

(* `except ImportError:` matches the exception in flight. *)
HandlerMatches(e) == IsSubclass(e, "ImportError")

(* The loop walking the list from its end. *)
Module_Reversed == modules[Len(modules) + 1 - idx]

(* The loop variable `module`. *)
Module == modules[idx]

----------------------------------------------------------------------------
TypeOK ==
    /\ modules \in Seq(ModuleNames)
    /\ loader \in [ModuleNames -> LoadOutcomes]
    /\ idx \in 0..Len(modules)
    /\ pc \in {"for", "import", "print_ok", "except", "print_missing", "exited"}
    /\ exc \in (LoadOutcomes \ {"ok"}) \cup {"none"}
    /\ imports \in Seq(ModuleNames)
    /\ exit_code \in {-1, 0, 1}

(* The state when check_dependencies() reaches its loop, for one           *)
(* environment.                                                            *)
Start(list) ==
    /\ modules = list
    /\ loader \in [ModuleNames -> LoadOutcomes]
    /\ idx = 0
    /\ pc = "for"
    /\ exc = "none"
    /\ imports = <<>>
    /\ stdout = <<>>
    /\ exit_code = -1

Init == Start(ModuleList)

(* for module in modules: take the next entry. *)
ForNext ==
    /\ pc = "for"
    /\ idx < Len(modules)
    /\ idx' = idx + 1
    /\ pc' = "import"
    /\ UNCHANGED <<modules, loader, exc, imports, stdout, exit_code>>

(* The list is exhausted: the function returns, the script ends normally. *)
ForEnd ==
    /\ pc = "for"
    /\ idx = Len(modules)
    /\ pc' = "exited"
    /\ exit_code' = 0
    /\ UNCHANGED <<modules, loader, idx, exc, imports, stdout>>

(* __import__(module): the loader loads the module or raises. *)
Import ==
    /\ pc = "import"
    /\ imports' = Append(imports, Module)
    /\ IF loader[Module] = "ok"
         THEN /\ pc' = "print_ok"
              /\ exc' = exc
         ELSE /\ pc' = "except"
              /\ exc' = loader[Module]
    /\ UNCHANGED <<modules, loader, idx, stdout, exit_code>>

(* The try body printing twice. *)
PrintAvailable_Twice ==
    /\ pc = "print_ok"
    /\ stdout' = stdout \o <<Line(CheckMark, Module), Line(CheckMark, Module)>>
    /\ pc' = "for"
    /\ UNCHANGED <<modules, loader, idx, exc, imports, exit_code>>

(* The try body printing the wrong glyph. *)
PrintAvailable_Cross ==
    /\ pc = "print_ok"
    /\ stdout' = Append(stdout, Line(CrossMark, Module))
    /\ pc' = "for"
    /\ UNCHANGED <<modules, loader, idx, exc, imports, exit_code>>

(* print(f'<check> {module}') *)
PrintAvailable ==
    /\ pc = "print_ok"
    /\ stdout' = Append(stdout, Line(CheckMark, Module))
    /\ pc' = "for"
    /\ UNCHANGED <<modules, loader, idx, exc, imports, exit_code>>

(* except ImportError: the exception in flight matches and is handled. *)
ExceptImportError ==
    /\ pc = "except"
    /\ HandlerMatches(exc)
    /\ exc' = "none"
    /\ pc' = "print_missing"
    /\ UNCHANGED <<modules, loader, idx, imports, stdout, exit_code>>

(* The exception matches no handler: it leaves check_dependencies(), then  *)
(* the script, and the interpreter exits with status 1.                    *)
Uncaught ==
    /\ pc = "except"
    /\ ~HandlerMatches(exc)
    /\ pc' = "exited"
    /\ exit_code' = 1
    /\ UNCHANGED <<modules, loader, idx, exc, imports, stdout>>

(* print(f'<cross> {module}') *)
PrintMissing ==
    /\ pc = "print_missing"
    /\ stdout' = Append(stdout, Line(CrossMark, Module))
    /\ pc' = "for"
    /\ UNCHANGED <<modules, loader, idx, exc, imports, exit_code>>

Next ==
    \/ ForNext
    \/ ForEnd
    \/ Import
    \/ PrintAvailable
    \/ ExceptImportError
    \/ Uncaught
    \/ PrintMissing

Spec == Init /\ [][Next]_vars

(* The same routine over the same entries listed in any order. *)
Orders ==
    {s \in [1..Len(ModuleList) -> ModuleNames] :
        \A i, j \in 1..Len(ModuleList) : s[i] = s[j] => i = j}

InitAnyOrder == \E list \in Orders : Start(list)

SpecAnyOrder == InitAnyOrder /\ [][Next]_vars

----------------------------------------------------------------------------
(* Vocabulary of the properties. *)

Range(s) == {s[i] : i \in 1..Len(s)}

(* The positions of the lines that name module m. *)
LinesFor(m) == {i \in 1..Len(stdout) : stdout[i].name = m}

(* The per-item state: Pending until a line is written for the item. *)
Status(m) ==
    IF LinesFor(m) = {} THEN "Pending"
    ELSE IF \E i \in LinesFor(m) : stdout[i].glyph = CheckMark THEN "Available"
    ELSE "Missing"

Resolvable(m) == loader[m] = "ok"
Absent(m)     == loader[m] = "ModuleNotFoundError"

(* The reference mapping: resolvable -> Available, otherwise Missing. *)
Reference ==
    [i \in 1..Len(modules) |->
        Line(IF Resolvable(modules[i]) THEN CheckMark ELSE CrossMark, modules[i])]

Exited == pc = "exited"

----------------------------------------------------------------------------
(* C1: no exception leaves check_dependencies(): when the run has ended no *)
(* exception is in flight and every name of the list has been attempted,   *)
(* whatever way an earlier load failed.                                    *)
C1_NoExceptionEscapes ==
    Exited =>
        /\ exc = "none"
        /\ \A i \in 1..Len(modules) : modules[i] \in Range(imports)

(* C2: when the program has finished, the number of output lines equals    *)
(* the number of entries of the module list.                               *)
C2_OneLinePerEntry == Exited => Len(stdout) = Len(ModuleList)

(* C3: the process exit code is 0 whatever the load outcomes are. *)
C3_ExitCodeZero == Exited => exit_code = 0

(* C4: a module whose load fails for any reason, not-found or other, has   *)
(* the line "cross <name>" once the run has ended.                         *)
C4_AnyLoadFailureIsMissing ==
    Exited =>
        \A m \in Range(modules) :
            ~Resolvable(m) => Line(CrossMark, m) \in Range(stdout)

(* C5: the i-th line written names the i-th module of the list, in every   *)
(* state and for every combination of load outcomes.                       *)
C5_OutputOrderIsListOrder ==
    /\ Len(stdout) <= Len(ModuleList)
    /\ \A i \in 1..Len(stdout) : stdout[i].name = ModuleList[i]

C5_Witness ==
    /\ Exited
    /\ Len(stdout) = Len(ModuleList)
    /\ \E i, j \in 1..Len(stdout) : stdout[i].glyph # stdout[j].glyph

(* C6: every line written for a resolvable module is "check <name>", every *)
(* line written for a module that does not exist is "cross <name>", and    *)
(* when each of the modules is either resolvable or non-existent the       *)
(* finished run's output equals the reference mapping.                     *)
C6_GlyphMatchesResolvability ==
    /\ \A i \in 1..Len(stdout) :
          /\ Resolvable(stdout[i].name) => stdout[i] = Line(CheckMark, stdout[i].name)
          /\ Absent(stdout[i].name) => stdout[i] = Line(CrossMark, stdout[i].name)
    /\ (Exited /\ \A m \in Range(modules) : Resolvable(m) \/ Absent(m))
          => stdout = Reference

C6_Witness ==
    /\ Exited
    /\ \A m \in Range(modules) : Resolvable(m) \/ Absent(m)
    /\ \E m \in Range(modules) : Resolvable(m)
    /\ \E m \in Range(modules) : Absent(m)
    /\ Len(stdout) = Len(modules)

(* C7: what is reported for a module depends only on that module's own     *)
(* resolvability, in whatever order the list is checked: in a finished run *)
(* two modules with the same load outcome have the same per-item state.    *)
C7_ReportDependsOnlyOnOwnOutcome ==
    Exited =>
        \A m, n \in Range(modules) :
            loader[m] = loader[n] => Status(m) = Status(n)

(* C8: no module ever has two lines, and an item that has left Pending     *)
(* keeps its state: the lines already written are never changed by a later *)
(* step.                                                                   *)
C8_ItemStateIsTerminal ==
    /\ [](\A m \in ModuleNames : Cardinality(LinesFor(m)) <= 1)
    /\ [][/\ Len(stdout') >= Len(stdout)
          /\ SubSeq(stdout', 1, Len(stdout)) = stdout
          /\ \A m \in ModuleNames :
                Status(m) # "Pending" => Status(m)' = Status(m)]_vars

C8_Witness ==
    /\ pc = "import"
    /\ \E m, n \in ModuleNames : Status(m) = "Available" /\ Status(n) = "Missing"

(* C9: a finished run has made exactly one load attempt per list entry, in *)
(* list order.                                                             *)
C9_OneAttemptPerEntry == Exited => imports = modules

(* C10: in every state the lines written are a prefix of the expected      *)
(* output: line i names the i-th module, is "check" exactly for a load     *)
(* that succeeded and "cross" only for a load that raised ImportError or a *)
(* subclass of it, and there is no line for an attempt that has not        *)
(* completed.                                                              *)
C10_OutputIsPrefix ==
    /\ Len(stdout) = (IF pc \in {"for", "exited"} /\ exc = "none" THEN idx ELSE idx - 1)
    /\ Len(imports) = (IF pc = "import" THEN idx - 1 ELSE idx)
    /\ \A i \in 1..Len(stdout) :
          /\ stdout[i].name = modules[i]
          /\ stdout[i].glyph \in {CheckMark, CrossMark}
          /\ stdout[i].glyph = CheckMark <=> loader[modules[i]] = "ok"
          /\ stdout[i].glyph = CrossMark =>
                loader[modules[i]] \in {"ImportError", "ModuleNotFoundError"}

C10_Witness ==
    /\ Exited
    /\ exit_code = 1
    /\ exc = "SyntaxError"
    /\ Len(stdout) < Len(modules)
    /\ \E i \in 1..Len(stdout) :
          stdout[i].glyph = CrossMark /\ loader[modules[i]] = "ImportError"

====
